---- MODULE Spec2Model ----
(***************************************************************************)
(* Model of the dashboard page of idx-smallcap-screener: the boot step,    *)
(* the Apply/Reset handlers with their filtering engine, and the filter    *)
(* controls (src/client/src/app/detail/[symbol]/page.tsx lines 101-407,    *)
(* which hold the current src/app/page.tsx, and src/unnamed/part_002,      *)
(* which holds the current Filters component); the data client getJson     *)
(* (src/client/src/lib/api.ts); the tabular renderer DataTable (part_002   *)
(* lines 343-504) with its search, sort and export; and the CSV serializer *)
(* toCSV with the download helper saveAs (src/client/src/lib/saveCsv.ts).  *)
(*                                                                         *)
(* Encoding of JavaScript values                                           *)
(*  - a string that the code trims, upper-cases or compares is a sequence  *)
(*    of one-character strings; Null is the JS null/undefined of such a    *)
(*    field (a one-element sequence that no character string equals);      *)
(*  - a broker name is a TLA+ string (the code only compares it with ===); *)
(*    NullBuyer / AbsentBuyer stand for a null / missing top_buyer;        *)
(*  - thresholds are counted in hundredths (0.35 is 35, 1 is 100); a JS    *)
(*    number that may be NaN or missing is a record [kind, v];             *)
(*  - priceValue and volRatioMin (number | "") are <<>> for "" and <<n>>.  *)
(***************************************************************************)
EXTENDS Integers, Sequences, FiniteSets, TLC

VARIABLES
    loading, hasModel, target, snap, agg,        \* useState of Page
    dateFrom, dateTo, broker, priceCond, priceValue, threshold,
    signal, symbolExact, sortDate, volRatioMin,
    rows, busyApply,
    bootPc, bootGot,                             \* boot(): position, results of its Promise.all
    applyPc, applyCtx, applyGot,                 \* applyFilters(): position, closure, results
    net,                                         \* requests sent whose answer is awaited
    unhandled,                                   \* rejections that left an async function uncaught
    edits,                                       \* number of control edits so far
    calls, fetches,                              \* getJson calls made, fetch requests issued
    tableRows, searchable, sortable, exportable, \* props of DataTable
    query, sortKey, sortAsc,                     \* useState of DataTable
    download,                                    \* the file offered last
    objectUrls, urlsMade,                        \* object URLs outstanding, and made so far
    fnArgs, fnResult                             \* input and output of a function under test

vars == <<loading, hasModel, target, snap, agg, dateFrom, dateTo, broker, priceCond,
          priceValue, threshold, signal, symbolExact, sortDate, volRatioMin, rows,
          busyApply, bootPc, bootGot, applyPc, applyCtx, applyGot, net, unhandled,
          edits, calls, fetches, tableRows, searchable, sortable, exportable,
          query, sortKey, sortAsc, download, objectUrls, urlsMade, fnArgs, fnResult>>

pageVars == <<loading, hasModel, target, snap, agg, dateFrom, dateTo, broker, priceCond,
              priceValue, threshold, signal, symbolExact, sortDate, volRatioMin, rows,
              busyApply, bootPc, bootGot, applyPc, applyCtx, applyGot, net, unhandled,
              edits>>

fnVars == <<fnArgs, fnResult>>

clientVars == <<calls, fetches>>

tableProps == <<tableRows, searchable, sortable, exportable>>

downloadVars == <<download, objectUrls, urlsMade>>

tableVars == <<tableProps, query, sortKey, sortAsc, downloadVars>>

----------------------------------------------------------------------------
(* Bounds of the model *)

\* the operator edits at most this many controls in one run
MaxEdits == 1

\* longest row sequence handed to a function under test
MaxRows == 2

\* longest string among the cell values handed to the serializer
MaxLen == 2

\* downloads started in one run
MaxDownloads == 2

----------------------------------------------------------------------------
(* JavaScript strings *)

Null == <<"null">>

Blank == <<>>

Space == " "

\* JS truthiness of a string | null value
Truthy(s) == s # Null /\ s # Blank

\* a || b on string | null values
OrElse(a, b) == IF Truthy(a) THEN a ELSE b

RECURSIVE TrimStart(_)
TrimStart(s) ==
    IF s # <<>> /\ Head(s) = Space THEN TrimStart(Tail(s)) ELSE s

RECURSIVE TrimEnd(_)
TrimEnd(s) ==
    IF s # <<>> /\ s[Len(s)] = Space THEN TrimEnd(SubSeq(s, 1, Len(s) - 1)) ELSE s

\* String.prototype.trim
Trim(s) == TrimEnd(TrimStart(s))

D1 == <<"2","0","2","4","-","0","1","-","0","2">>

D2 == <<"2","0","2","4","-","0","1","-","0","3">>

BBCA == <<"B","B","C","A">>

BBRI == <<"B","B","R","I">>

----------------------------------------------------------------------------
(* JavaScript numbers *)

Num(n) == [kind |-> "num", v |-> n]

NaN == [kind |-> "nan", v |-> 0]

JsUndefined == [kind |-> "undefined", v |-> 0]

\* a JS string value, and null
Str(s) == [kind |-> "str", v |-> s]

JsNull == [kind |-> "null", v |-> 0]

Digits == <<"0", "1", "2", "3", "4", "5", "6", "7", "8", "9">>

IsDigit(c) == \E i \in 1..10 : Digits[i] = c

DigitValue(c) == (CHOOSE i \in 1..10 : Digits[i] = c) - 1

RECURSIVE DigitsValue(_)
\* the value of a non-empty sequence of decimal digits
DigitsValue(t) ==
    IF Len(t) = 1 THEN DigitValue(t[1])
    ELSE DigitsValue(SubSeq(t, 1, Len(t) - 1)) * 10 + DigitValue(t[Len(t)])

AllDigits(t) == t # <<>> /\ \A i \in 1..Len(t) : IsDigit(t[i])

\* Number(s) for a string: white space is trimmed, the empty string is 0, an
\* integer literal is its value, any other text of the model is NaN
StrToNumber(s) ==
    LET t == Trim(s)
    IN IF t = <<>> THEN Num(0)
       ELSE IF AllDigits(t) THEN Num(DigitsValue(t))
       ELSE IF Head(t) = "-" /\ AllDigits(Tail(t)) THEN Num(0 - DigitsValue(Tail(t)))
       ELSE NaN

\* Number(x)
ToNumber(x) ==
    CASE x.kind = "undefined" -> NaN
      [] x.kind = "null" -> Num(0)
      [] x.kind = "str" -> StrToNumber(x.v)
      [] OTHER -> x

RECURSIVE NatToString(_)
NatToString(n) ==
    IF n < 10 THEN <<Digits[n + 1]>>
    ELSE NatToString(n \div 10) \o <<Digits[(n % 10) + 1]>>

\* String(x)
ToStr(x) ==
    CASE x.kind = "str" -> x.v
      [] x.kind = "num" -> IF x.v < 0 THEN <<"-">> \o NatToString(0 - x.v)
                                      ELSE NatToString(x.v)
      [] x.kind = "null" -> <<"n", "u", "l", "l">>
      [] x.kind = "undefined" -> <<"u", "n", "d", "e", "f", "i", "n", "e", "d">>
      [] OTHER -> <<"N", "a", "N">>

\* Number.isFinite
IsFinite(x) == x.kind = "num"

Min(a, b) == IF a <= b THEN a ELSE b

\* the literal 0.35 of page.tsx, in hundredths
DefaultThreshold == 35

----------------------------------------------------------------------------
(* Values exchanged with the backend *)

NullBuyer == "<null>"

AbsentBuyer == "<absent>"

AllBrokers == "Semua Broker"

\* useState<...|null>(null)
JsNullObj == [kind |-> "null"]

TargetName == <<"u","p","5">>

HealthResponses ==
    { [kind |-> "health", has_model |-> TRUE,  target |-> TargetName,
       threshold_default |-> Num(50)],
      [kind |-> "health", has_model |-> TRUE,  target |-> TargetName,
       threshold_default |-> Num(150)],
      [kind |-> "health", has_model |-> FALSE, target |-> Null,
       threshold_default |-> JsUndefined] }

SnapshotResponses ==
    { [kind |-> "snapshot", date |-> d] : d \in {Null, D2} }

AggResponses ==
    { [kind |-> "broker-agg", date |-> D1,
       rows |-> << [top_buyer |-> "AK"], [top_buyer |-> NullBuyer] >>],
      [kind |-> "broker-agg", date |-> D2,
       rows |-> << [top_buyer |-> "BK"], [top_buyer |-> ""], [top_buyer |-> "BK"] >>] }

\* SignalRow of SignalsTable.tsx, the fields the page reads
RowA == [tanggal |-> D1, saham |-> BBCA, sinyal |-> "BELI", harga |-> 9000,
         top_buyer |-> "AK"]

RowB == [tanggal |-> D2, saham |-> BBRI, sinyal |-> "JUAL KUAT", harga |-> 4500,
         top_buyer |-> NullBuyer]

SignalsResponses ==
    { [kind |-> "signals", rows |-> <<>>],
      [kind |-> "signals", rows |-> <<RowA, RowB>>] }

Pending == [kind |-> "pending"]

\* the request a getJson call sends: operation and query parameters
Request(join, op, from, to, thr, date) ==
    [join |-> join, op |-> op, from |-> from, to |-> to, threshold |-> thr, date |-> date]

apiHealth(join) == Request(join, "health", Null, Null, 0, Null)

apiSnapshot(join, date) ==
    Request(join, "snapshot", Null, Null, 0, IF Truthy(date) THEN date ELSE Null)

apiBrokerAgg(join, date) ==
    Request(join, "broker-agg", Null, Null, 0, IF Truthy(date) THEN date ELSE Null)

apiSignals(join, from, to, thr) == Request(join, "signals", from, to, thr, Null)

\* a read that has resolved, its answer not yet looked at
Resolved == [kind |-> "resolved"]

----------------------------------------------------------------------------
(* Threshold clamping *)

\* boot: Number.isFinite(td) && td > 0 && td <= 1 ? td : 0.35
ClampDefault(td) ==
    IF IsFinite(td) /\ td.v > 0 /\ td.v <= 100 THEN td.v ELSE DefaultThreshold

\* faulty variant: the threshold is sent as it is whenever it is a number
ClampThresholdRaw(t) ==
    IF IsFinite(t) THEN t.v ELSE DefaultThreshold

\* faulty variant: a threshold above 1 is replaced by the default, not capped
ClampThresholdToDefault(t) ==
    IF IsFinite(t) /\ t.v > 0 /\ t.v <= 100 THEN t.v ELSE DefaultThreshold

\* applyFilters: Number.isFinite(threshold) && threshold > 0 ? Math.min(threshold, 1) : 0.35
ClampThreshold(t) ==
    IF IsFinite(t) /\ t.v > 0 THEN Min(t.v, 100) ELSE DefaultThreshold

----------------------------------------------------------------------------
(* Broker options *)

\* if (r.top_buyer): neither null, missing nor ""
TruthyBuyer(b) == b # NullBuyer /\ b # AbsentBuyer /\ b # ""

AggRows(a) == IF a.kind = "null" THEN <<>> ELSE a.rows

Range(s) == { s[i] : i \in 1..Len(s) }

RECURSIVE Buyers(_)
\* the Set of top buyers, in insertion order
Buyers(rs) ==
    IF rs = <<>> THEN <<>>
    ELSE LET init == Buyers(SubSeq(rs, 1, Len(rs) - 1))
             b == rs[Len(rs)].top_buyer
         IN IF TruthyBuyer(b) /\ b \notin Range(init) THEN Append(init, b) ELSE init

brokerOpts(a) == <<AllBrokers>> \o Buyers(AggRows(a))

----------------------------------------------------------------------------
(* Filtering and sorting engine: applyFilters after its reads have resolved *)

\* r.top_buyer ?? ""
BuyerOrEmpty(b) == IF b = NullBuyer \/ b = AbsentBuyer THEN "" ELSE b

\* faulty variant: a row without top buyer passes every broker filter
BrokerFilterLoose(out, b) ==
    IF b # AllBrokers
    THEN SelectSeq(out, LAMBDA r : BuyerOrEmpty(r.top_buyer) \in {"", b})
    ELSE out

\* if (broker !== "Semua Broker") out = out.filter(r => (r.top_buyer ?? "") === broker)
BrokerFilter(out, b) ==
    IF b # AllBrokers
    THEN SelectSeq(out, LAMBDA r : BuyerOrEmpty(r.top_buyer) = b)
    ELSE out

\* faulty variant: the price value is tested for truthiness, so 0 counts as unset
PriceFilterTruthy(out, cond, pv) ==
    IF pv # <<>> /\ pv[1] # 0
    THEN SelectSeq(out, LAMBDA r : IF cond = "diatas" THEN r.harga >= pv[1]
                                                      ELSE r.harga <= pv[1])
    ELSE out

\* if (priceValue !== "") out = out.filter(r => diatas ? harga >= value : harga <= value)
PriceFilter(out, cond, pv) ==
    IF pv # <<>>
    THEN SelectSeq(out, LAMBDA r : IF cond = "diatas" THEN r.harga >= pv[1]
                                                      ELSE r.harga <= pv[1])
    ELSE out

\* faulty variant: under JUAL every row that is not a BELI row passes
SignalFilterNotBuy(out, sg) ==
    IF sg # "Semua"
    THEN SelectSeq(out, LAMBDA r : IF sg = "BELI" THEN r.sinyal = "BELI"
                                                  ELSE r.sinyal # "BELI")
    ELSE out

\* if (signal !== "Semua") out = out.filter(r => BELI ? sinyal === "BELI" : sinyal === "JUAL KUAT")
SignalFilter(out, sg) ==
    IF sg # "Semua"
    THEN SelectSeq(out, LAMBDA r : IF sg = "BELI" THEN r.sinyal = "BELI"
                                                  ELSE r.sinyal = "JUAL KUAT")
    ELSE out

UpperChar(c) ==
    CASE c = "a" -> "A" [] c = "b" -> "B" [] c = "c" -> "C"
      [] c = "i" -> "I" [] c = "r" -> "R" [] OTHER -> c

LowerChar(c) ==
    CASE c = "A" -> "a" [] c = "B" -> "b" [] c = "C" -> "c"
      [] c = "I" -> "i" [] c = "R" -> "r" [] OTHER -> c

\* String.prototype.toLowerCase
ToLowerCase(s) == [i \in 1..Len(s) |-> LowerChar(s[i])]

\* String.prototype.toUpperCase
ToUpperCase(s) == [i \in 1..Len(s) |-> UpperChar(s[i])]

\* faulty variant: the symbols are compared as they are written
SymbolFilterCaseSensitive(out, sym) ==
    IF Trim(sym) # <<>>
    THEN SelectSeq(out, LAMBDA r : r.saham = Trim(sym))
    ELSE out

\* if (symbolExact.trim()) out = out.filter(r => r.saham.toUpperCase() === want)
SymbolFilter(out, sym) ==
    IF Trim(sym) # <<>>
    THEN LET want == ToUpperCase(Trim(sym))
         IN SelectSeq(out, LAMBDA r : ToUpperCase(r.saham) = want)
    ELSE out

\* the characters of the model's strings in collation order: white space,
\* punctuation, digits, letters
Alphabet ==
    <<" ", "-", ",", "\"", "0", "1", "2", "3", "4", "5", "6", "7", "8", "9",
      "a", "b", "c", "d", "e", "f", "i", "l", "n", "r", "u", "x", "z">>

\* primary weight of a character: its place in the alphabet, letter case ignored
CharCode(c) == CHOOSE i \in 1..Len(Alphabet) : Alphabet[i] = LowerChar(c)

RECURSIVE PrimaryCompare(_, _)
\* comparison by primary weights, a proper prefix first: -1, 0 or 1
PrimaryCompare(a, b) ==
    IF a = <<>> /\ b = <<>> THEN 0
    ELSE IF a = <<>> THEN -1
    ELSE IF b = <<>> THEN 1
    ELSE IF CharCode(Head(a)) < CharCode(Head(b)) THEN -1
    ELSE IF CharCode(Head(a)) > CharCode(Head(b)) THEN 1
    ELSE PrimaryCompare(Tail(a), Tail(b))

\* a.localeCompare(b): primary weights decide; between strings that differ in
\* letter case only, the first difference decides, lower case first
localeCompare(a, b) ==
    LET p == PrimaryCompare(a, b)
    IN IF p # 0 \/ a = b THEN p
       ELSE LET i == CHOOSE i \in 1..Len(a) :
                         a[i] # b[i] /\ \A j \in 1..(i - 1) : a[j] = b[j]
            IN IF LowerChar(a[i]) = a[i] THEN -1 ELSE 1

\* the comparator of the date sort
DateCompare(dir, a, b) ==
    IF dir = "asc" THEN localeCompare(a.tanggal, b.tanggal)
                   ELSE localeCompare(b.tanggal, a.tanggal)

RECURSIVE InsertBeforeEqual(_, _, _)
\* faulty variant: x is placed before the elements that compare equal to it
InsertBeforeEqual(dir, s, x) ==
    IF s = <<>> THEN <<x>>
    ELSE IF DateCompare(dir, Head(s), x) < 0
         THEN <<Head(s)>> \o InsertBeforeEqual(dir, Tail(s), x)
         ELSE <<x>> \o s

RECURSIVE InsertSorted(_, _, _)
\* x placed after every element that does not compare greater than it
InsertSorted(dir, s, x) ==
    IF s = <<>> THEN <<x>>
    ELSE IF DateCompare(dir, Head(s), x) <= 0
         THEN <<Head(s)>> \o InsertSorted(dir, Tail(s), x)
         ELSE <<x>> \o s

RECURSIVE SortByDate(_, _)
\* [...out].sort(comparator): Array.prototype.sort is stable
SortByDate(out, dir) ==
    IF out = <<>> THEN <<>>
    ELSE InsertSorted(dir, SortByDate(SubSeq(out, 1, Len(out) - 1), dir), out[Len(out)])

\* lines 195-233: the predicates in their fixed order, then the sort
FilterAndSort(sigRows, c) ==
    SortByDate(
        SymbolFilter(
            SignalFilter(
                PriceFilter(BrokerFilter(sigRows, c.broker), c.priceCond, c.priceValue),
                c.signal),
            c.symbolExact),
        c.sortDate)

----------------------------------------------------------------------------
(* The page: state after the first render *)

BootOps == {"health", "snapshot", "broker-agg"}

ApplyOps == {"signals", "snapshot", "broker-agg"}

NoCtx ==
    [from |-> Blank, to |-> Blank, thr |-> 0, broker |-> AllBrokers,
     priceCond |-> "diatas", priceValue |-> <<>>, signal |-> "Semua",
     symbolExact |-> Blank, sortDate |-> "desc"]

NoArgs == [fn |-> "none"]

PageInit ==
    /\ loading = TRUE
    /\ hasModel = FALSE
    /\ target = Null
    /\ snap = JsNullObj
    /\ agg = JsNullObj
    /\ dateFrom = Blank
    /\ dateTo = Blank
    /\ broker = AllBrokers
    /\ priceCond = "diatas"
    /\ priceValue = <<>>
    /\ threshold = DefaultThreshold
    /\ signal = "Semua"
    /\ symbolExact = Blank
    /\ sortDate = "desc"
    /\ volRatioMin = <<>>
    /\ rows = <<>>
    /\ busyApply = FALSE
    /\ bootPc = "idle"
    /\ bootGot = [op \in BootOps |-> Pending]
    /\ applyPc = "idle"
    /\ applyCtx = NoCtx
    /\ applyGot = [op \in ApplyOps |-> Pending]
    /\ net = {}
    /\ unhandled = 0
    /\ edits = 0

NoDownload == [name |-> "", content |-> Blank, href |-> 0]

\* a DataTable without rows or capabilities, in its first render
TableInit ==
    /\ tableRows = <<>>
    /\ searchable = FALSE /\ sortable = FALSE /\ exportable = FALSE
    /\ query = Blank
    /\ sortKey = Null
    /\ sortAsc = TRUE
    /\ download = NoDownload
    /\ objectUrls = {}
    /\ urlsMade = 0

\* no getJson call has been made
ClientInit ==
    /\ calls = <<>>
    /\ fetches = <<>>

Init ==
    /\ PageInit
    /\ ClientInit
    /\ TableInit
    /\ fnArgs = NoArgs
    /\ fnResult = NoArgs

criteria == <<dateFrom, dateTo, broker, priceCond, priceValue, threshold, signal,
              symbolExact, sortDate, volRatioMin>>

bootState == <<loading, hasModel, target, bootPc, bootGot, unhandled>>

applyState == <<busyApply, applyPc, applyCtx, applyGot>>

\* net once the Promise.all of `join` has rejected: its other reads stay in flight
\* in the browser, but nothing waits for them any more, and net forgets them
Abandoned(reqs, join) == { r \in reqs : r.join # join }

AllResolved(got) == \A op \in DOMAIN got : got[op] # Pending

----------------------------------------------------------------------------
(* boot(), lines 138-159 *)

\* useEffect(() => { void boot(); }, []) up to the await
BootStart ==
    /\ bootPc = "idle"
    /\ loading' = TRUE
    /\ bootPc' = "await"
    /\ net' = net \cup {apiHealth("boot"), apiSnapshot("boot", Null),
                        apiBrokerAgg("boot", Null)}
    /\ UNCHANGED <<hasModel, target, snap, agg, criteria, rows, applyState, bootGot,
                   unhandled, edits, fnVars, clientVars, tableVars>>

\* faulty variant: boot drops its results when an applyFilters run has completed
\* in the meantime
BootContinueUnlessApplied(h, s, a) ==
    /\ IF applyPc = "ok"
       THEN UNCHANGED <<hasModel, target, threshold, snap, agg, dateFrom, dateTo>>
       ELSE /\ hasModel' = h.has_model
            /\ target' = h.target
            /\ threshold' = ClampDefault(ToNumber(h.threshold_default))
            /\ snap' = s
            /\ agg' = a
            /\ IF Truthy(s.date)
               THEN dateFrom' = s.date /\ dateTo' = s.date
               ELSE UNCHANGED <<dateFrom, dateTo>>
    /\ loading' = FALSE
    /\ bootPc' = "done"
    /\ UNCHANGED unhandled

\* the statements after the await, with h, s, a the three results, and the finally
BootContinue(h, s, a) ==
    /\ hasModel' = h.has_model
    /\ target' = h.target
    /\ threshold' = ClampDefault(ToNumber(h.threshold_default))
    /\ snap' = s
    /\ agg' = a
    /\ IF Truthy(s.date)
       THEN dateFrom' = s.date /\ dateTo' = s.date
       ELSE UNCHANGED <<dateFrom, dateTo>>
    /\ loading' = FALSE
    /\ bootPc' = "done"
    /\ UNCHANGED unhandled

\* one of boot's reads resolves; the last one lets boot continue. The content of
\* an answer is not looked at before the join completes, so it is drawn then.
BootReadResolved(r) ==
    /\ r \in net /\ r.join = "boot"
    /\ net' = net \ {r}
    /\ LET got == [bootGot EXCEPT ![r.op] = Resolved]
       IN IF AllResolved(got)
          THEN \E h \in HealthResponses, s \in SnapshotResponses, a \in AggResponses :
                  /\ bootGot' = [got EXCEPT !["health"] = h, !["snapshot"] = s,
                                            !["broker-agg"] = a]
                  /\ BootContinue(h, s, a)
          ELSE /\ bootGot' = got
               /\ UNCHANGED <<hasModel, target, threshold, snap, agg, dateFrom, dateTo,
                              loading, bootPc, unhandled>>
    /\ UNCHANGED <<broker, priceCond, priceValue, signal, symbolExact, sortDate,
                   volRatioMin, rows, applyState, edits, fnVars, clientVars, tableVars>>

\* faulty variant: a failed boot clears the snapshot and the broker aggregation
BootReadRejectedClearing(r) ==
    /\ r \in net /\ r.join = "boot"
    /\ net' = Abandoned(net, "boot")
    /\ loading' = FALSE
    /\ bootPc' = "failed"
    /\ unhandled' = unhandled + 1
    /\ snap' = JsNullObj
    /\ agg' = JsNullObj
    /\ UNCHANGED <<hasModel, target, criteria, rows, applyState, bootGot, edits,
                   fnVars, clientVars, tableVars>>

\* one of boot's reads rejects: Promise.all rejects, the finally runs, and the
\* rejection leaves boot(), whose promise `void boot()` drops
BootReadRejected(r) ==
    /\ r \in net /\ r.join = "boot"
    /\ net' = Abandoned(net, "boot")
    /\ loading' = FALSE
    /\ bootPc' = "failed"
    /\ unhandled' = unhandled + 1
    /\ UNCHANGED <<hasModel, target, snap, agg, criteria, rows, applyState, bootGot,
                   edits, fnVars, clientVars, tableVars>>

----------------------------------------------------------------------------
(* applyFilters(), lines 172-240 *)

\* faulty variant: from does not fall back on dateTo
DefaultFromOwn(df, dt) == Trim(OrElse(df, Blank))

\* const from = (dateFrom || dateTo || "").trim()
DefaultFrom(df, dt) == Trim(OrElse(OrElse(df, dt), Blank))

\* const to = (dateTo || dateFrom || "").trim()
DefaultTo(df, dt) == Trim(OrElse(OrElse(dt, df), Blank))

\* faulty variant: the empty range is not short-circuited
EmptyRangeNever(from, to) == FALSE

\* if (!from || !to)
EmptyRange(from, to) == from = Blank \/ to = Blank

\* faulty variant: the Apply button is live while a run is in flight
ApplyFiltersWhileBusy ==
    /\ bootPc # "idle"
    /\ LET from == DefaultFrom(dateFrom, dateTo)
           to == DefaultTo(dateFrom, dateTo)
           thr == ClampThreshold(Num(threshold))
       IN IF EmptyRange(from, to)
          THEN /\ rows' = <<>>
               /\ busyApply' = FALSE
               /\ applyPc' = "empty"
               /\ UNCHANGED <<applyCtx, applyGot, net>>
          ELSE /\ busyApply' = TRUE
               /\ applyPc' = "await"
               /\ applyCtx' = [from |-> from, to |-> to, thr |-> thr, broker |-> broker,
                               priceCond |-> priceCond, priceValue |-> priceValue,
                               signal |-> signal, symbolExact |-> symbolExact,
                               sortDate |-> sortDate]
               /\ applyGot' = [op \in ApplyOps |-> Pending]
               /\ net' = net \cup {apiSignals("apply", from, to, thr),
                                   apiSnapshot("apply", to), apiBrokerAgg("apply", to)}
               /\ UNCHANGED rows
    /\ UNCHANGED <<snap, agg, criteria, bootState, edits, fnVars, clientVars, tableVars>>

\* the Apply button (disabled while busy): applyFilters up to its await or its return
ApplyFilters ==
    /\ bootPc # "idle"
    /\ ~busyApply
    /\ LET from == DefaultFrom(dateFrom, dateTo)
           to == DefaultTo(dateFrom, dateTo)
           thr == ClampThreshold(Num(threshold))
       IN IF EmptyRange(from, to)
          THEN /\ rows' = <<>>
               /\ busyApply' = FALSE
               /\ applyPc' = "empty"
               /\ UNCHANGED <<applyCtx, applyGot, net>>
          ELSE /\ busyApply' = TRUE
               /\ applyPc' = "await"
               /\ applyCtx' = [from |-> from, to |-> to, thr |-> thr, broker |-> broker,
                               priceCond |-> priceCond, priceValue |-> priceValue,
                               signal |-> signal, symbolExact |-> symbolExact,
                               sortDate |-> sortDate]
               /\ applyGot' = [op \in ApplyOps |-> Pending]
               /\ net' = net \cup {apiSignals("apply", from, to, thr),
                                   apiSnapshot("apply", to), apiBrokerAgg("apply", to)}
               /\ UNCHANGED rows
    /\ UNCHANGED <<snap, agg, criteria, bootState, edits, fnVars, clientVars, tableVars>>

\* faulty variant: the filters are read from the controls when the reads arrive
ApplyContinueLive(sig, s, a) ==
    /\ snap' = s
    /\ agg' = a
    /\ rows' = FilterAndSort(sig.rows,
                             [applyCtx EXCEPT !.broker = broker, !.priceCond = priceCond,
                                              !.priceValue = priceValue, !.signal = signal,
                                              !.symbolExact = symbolExact,
                                              !.sortDate = sortDate])
    /\ busyApply' = FALSE
    /\ applyPc' = "ok"

\* the statements after the await, with sig, s, a the three results, and the finally
ApplyContinue(sig, s, a) ==
    /\ snap' = s
    /\ agg' = a
    /\ rows' = FilterAndSort(sig.rows, applyCtx)
    /\ busyApply' = FALSE
    /\ applyPc' = "ok"

\* one of applyFilters' reads resolves; the last one lets applyFilters continue
ApplyReadResolved(r) ==
    /\ r \in net /\ r.join = "apply"
    /\ net' = net \ {r}
    /\ LET got == [applyGot EXCEPT ![r.op] = Resolved]
       IN IF AllResolved(got)
          THEN \E sig \in SignalsResponses, s \in SnapshotResponses, a \in AggResponses :
                  /\ applyGot' = [got EXCEPT !["signals"] = sig, !["snapshot"] = s,
                                             !["broker-agg"] = a]
                  /\ ApplyContinue(sig, s, a)
          ELSE /\ applyGot' = got
               /\ UNCHANGED <<snap, agg, rows, busyApply, applyPc>>
    /\ UNCHANGED <<applyCtx, criteria, bootState, edits, fnVars, clientVars, tableVars>>

\* faulty variant: no finally, a failed run leaves busy set
ApplyReadRejectedStaysBusy(r) ==
    /\ r \in net /\ r.join = "apply"
    /\ net' = Abandoned(net, "apply")
    /\ rows' = <<>>
    /\ applyPc' = "failed"
    /\ UNCHANGED <<busyApply, snap, agg, applyCtx, applyGot, criteria, bootState, edits,
                   fnVars, clientVars, tableVars>>

\* one of applyFilters' reads rejects: catch (console.error, setRows([])) and finally
ApplyReadRejected(r) ==
    /\ r \in net /\ r.join = "apply"
    /\ net' = Abandoned(net, "apply")
    /\ rows' = <<>>
    /\ busyApply' = FALSE
    /\ applyPc' = "failed"
    /\ UNCHANGED <<snap, agg, applyCtx, applyGot, criteria, bootState, edits,
                   fnVars, clientVars, tableVars>>

----------------------------------------------------------------------------
(* The filter controls (Filters, part_002 lines 170-339) and Reset *)

\* what an <input type="date"> can deliver
DateInputs == {Blank, D1}

\* what the operator can type in a number input: nothing, a number, or no number
PriceInputs == {JsUndefined, Num(0), Num(5000), NaN}

PctInputs == {JsUndefined, Num(0 - 5), Num(70), Num(150), NaN}

VolInputs == {JsUndefined, Num(10), NaN}

SymbolInputs == {Blank, <<"b","b","c","a">>, <<" ","B","B","R","I"," ">>}

\* every control is live once the page has mounted and its effect has run
CanEdit == bootPc # "idle" /\ edits < MaxEdits

\* the rest of an edit; an edit that changes nothing is not counted
Edited(others) ==
    /\ UNCHANGED others
    /\ edits' = IF criteria' # criteria THEN edits + 1 ELSE edits
    /\ UNCHANGED <<snap, agg, rows, bootState, applyState, net, fnVars, clientVars, tableVars>>

SetDateFrom(v) ==
    /\ CanEdit
    /\ dateFrom' = v
    /\ Edited(<<dateTo, broker, priceCond, priceValue, threshold, signal, symbolExact,
                sortDate, volRatioMin>>)

SetDateTo(v) ==
    /\ CanEdit
    /\ dateTo' = v
    /\ Edited(<<dateFrom, broker, priceCond, priceValue, threshold, signal, symbolExact,
                sortDate, volRatioMin>>)

\* the broker <select>, whose options are brokerOptions
SetBroker(v) ==
    /\ CanEdit
    /\ v \in Range(brokerOpts(agg))
    /\ broker' = v
    /\ Edited(<<dateFrom, dateTo, priceCond, priceValue, threshold, signal, symbolExact,
                sortDate, volRatioMin>>)

SetPriceCond(v) ==
    /\ CanEdit
    /\ priceCond' = v
    /\ Edited(<<dateFrom, dateTo, broker, priceValue, threshold, signal, symbolExact,
                sortDate, volRatioMin>>)

\* handlePriceChange: "" clears, a finite number is stored, anything else is ignored
handlePriceChange(x) ==
    /\ CanEdit
    /\ priceValue' = IF x.kind = "undefined" THEN <<>>
                     ELSE IF IsFinite(x) THEN <<x.v>> ELSE priceValue
    /\ Edited(<<dateFrom, dateTo, broker, priceCond, threshold, signal, symbolExact,
                sortDate, volRatioMin>>)

\* handleVolRatioMin
handleVolRatioMin(x) ==
    /\ CanEdit
    /\ volRatioMin' = IF x.kind = "undefined" THEN <<>>
                      ELSE IF IsFinite(x) THEN <<x.v>> ELSE volRatioMin
    /\ Edited(<<dateFrom, dateTo, broker, priceCond, priceValue, threshold, signal,
                symbolExact, sortDate>>)

\* the percentage of handleThresholdPctChange brought into 0..100
ClampPct(pct) == IF pct < 0 THEN 0 ELSE IF pct > 100 THEN 100 ELSE pct

\* handleThresholdPctChange: "" and non-numbers are ignored, else setThreshold(pct / 100)
handleThresholdPctChange(x) ==
    /\ CanEdit
    /\ threshold' = IF x.kind = "undefined" \/ ~IsFinite(x) THEN threshold
                    ELSE ClampPct(x.v)
    /\ Edited(<<dateFrom, dateTo, broker, priceCond, priceValue, signal, symbolExact,
                sortDate, volRatioMin>>)

SetSignal(v) ==
    /\ CanEdit
    /\ signal' = v
    /\ Edited(<<dateFrom, dateTo, broker, priceCond, priceValue, threshold, symbolExact,
                sortDate, volRatioMin>>)

\* onChange={(e) => setSymbolExact(e.target.value.toUpperCase())}
SetSymbolExact(v) ==
    /\ CanEdit
    /\ symbolExact' = ToUpperCase(v)
    /\ Edited(<<dateFrom, dateTo, broker, priceCond, priceValue, threshold, signal,
                sortDate, volRatioMin>>)

SetSortDate(v) ==
    /\ CanEdit
    /\ sortDate' = v
    /\ Edited(<<dateFrom, dateTo, broker, priceCond, priceValue, threshold, signal,
                symbolExact, volRatioMin>>)

\* faulty variant: Reset restores the threshold default that boot read
ResetToBootDefault ==
    /\ bootPc # "idle"
    /\ ~busyApply
    /\ broker' = AllBrokers
    /\ priceCond' = "diatas"
    /\ priceValue' = <<>>
    /\ threshold' = IF bootPc = "done"
                    THEN ClampDefault(ToNumber(bootGot["health"].threshold_default))
                    ELSE DefaultThreshold
    /\ signal' = "Semua"
    /\ symbolExact' = Blank
    /\ sortDate' = "desc"
    /\ volRatioMin' = <<>>
    /\ rows' = <<>>
    /\ UNCHANGED <<dateFrom, dateTo, snap, agg, bootState, applyState, net, edits,
                   fnVars, clientVars, tableVars>>

\* onReset, page.tsx lines 324-334; the Reset button is disabled while busy
Reset ==
    /\ bootPc # "idle"
    /\ ~busyApply
    /\ broker' = AllBrokers
    /\ priceCond' = "diatas"
    /\ priceValue' = <<>>
    /\ threshold' = DefaultThreshold
    /\ signal' = "Semua"
    /\ symbolExact' = Blank
    /\ sortDate' = "desc"
    /\ volRatioMin' = <<>>
    /\ rows' = <<>>
    /\ UNCHANGED <<dateFrom, dateTo, snap, agg, bootState, applyState, net, edits,
                   fnVars, clientVars, tableVars>>

----------------------------------------------------------------------------
(* The page as a state machine *)

\* one of boot's reads is answered or fails
SettleBoot ==
    \E r \in net : BootReadResolved(r) \/ BootReadRejected(r)

\* one of applyFilters' reads is answered or fails
SettleApply ==
    \E r \in net : ApplyReadResolved(r) \/ ApplyReadRejected(r)

Edit ==
    \/ \E v \in DateInputs : SetDateFrom(v)
    \/ \E v \in DateInputs : SetDateTo(v)
    \/ \E v \in Range(brokerOpts(agg)) : SetBroker(v)
    \/ \E v \in {"diatas", "dibawah"} : SetPriceCond(v)
    \/ \E x \in PriceInputs : handlePriceChange(x)
    \/ \E x \in VolInputs : handleVolRatioMin(x)
    \/ \E x \in PctInputs : handleThresholdPctChange(x)
    \/ \E v \in {"Semua", "BELI", "JUAL"} : SetSignal(v)
    \/ \E v \in SymbolInputs : SetSymbolExact(v)
    \/ \E v \in {"asc", "desc"} : SetSortDate(v)

Next ==
    \/ BootStart
    \/ SettleBoot
    \/ SettleApply
    \/ ApplyFilters
    \/ Reset
    \/ Edit

Spec == Init /\ [][Next]_vars

\* the mount effect runs, and every request is eventually answered or fails
FairSpec == Spec /\ WF_vars(BootStart) /\ WF_vars(SettleBoot) /\ WF_vars(SettleApply)

----------------------------------------------------------------------------
(* Threshold clamping on its own: every input of ThresholdInputs is clamped *)

ThresholdInputs == { Num(n) : n \in (0 - 100)..150 } \cup {NaN}

ClampInit ==
    /\ PageInit
    /\ ClientInit
    /\ TableInit
    /\ fnArgs \in { [fn |-> f, x |-> x] : f \in {"ClampThreshold", "ClampDefault"},
                                          x \in ThresholdInputs }
    /\ fnResult = NoArgs

\* applyFilters line 183 on fnArgs.x
RunClampThreshold ==
    /\ fnArgs.fn = "ClampThreshold" /\ fnResult = NoArgs
    /\ fnResult' = [fn |-> "ClampThreshold", out |-> ClampThreshold(fnArgs.x)]
    /\ UNCHANGED <<pageVars, clientVars, tableVars, fnArgs>>

\* boot lines 145-146 on fnArgs.x
RunClampDefault ==
    /\ fnArgs.fn = "ClampDefault" /\ fnResult = NoArgs
    /\ fnResult' = [fn |-> "ClampDefault", out |-> ClampDefault(ToNumber(fnArgs.x))]
    /\ UNCHANGED <<pageVars, clientVars, tableVars, fnArgs>>

ClampNext == RunClampThreshold \/ RunClampDefault

SpecClamp == ClampInit /\ [][ClampNext]_vars

----------------------------------------------------------------------------
(* The predicates of the filtering engine on their own *)

TopBuyers == {NullBuyer, AbsentBuyer, "", "AK", "BK"}

Prices == {0, 4500, 5000, 9000}

\* the sequences over S of length at most n
SeqsUpTo(S, n) == UNION { [1..k -> S] : k \in 0..n }

BuyerRows == { [RowA EXCEPT !.top_buyer = b] : b \in TopBuyers }

PriceRows == { [RowA EXCEPT !.harga = h] : h \in Prices }

\* the third value of SignalRow.sinyal, a dash
NoSignal == "-"

SignalRows == { [RowA EXCEPT !.sinyal = k] : k \in {"BELI", "JUAL KUAT", NoSignal} }

SymbolRows ==
    { [RowA EXCEPT !.saham = sy] :
      sy \in {BBCA, BBRI, <<"b","b","c","a">>, <<"B","B","C","A","R">>} }

\* what symbolExact can hold when typed through the control or set otherwise
SymbolRequests ==
    {Blank, <<" ">>, BBCA, <<"b","b","c","a">>, <<" ","b","b","R","I"," ">>, <<"B","B","C">>}

\* rows that differ in date, symbol, signal, price and top buyer
MixedRows ==
    {RowA, RowB, [RowA EXCEPT !.saham = BBRI, !.harga = 4500],
     [RowB EXCEPT !.saham = BBCA, !.sinyal = "BELI", !.top_buyer = "AK"]}

EngineCriteria ==
    { [NoCtx EXCEPT !.broker = b, !.priceValue = pv, !.signal = sg,
                    !.symbolExact = sym, !.sortDate = d] :
      b \in {AllBrokers, "AK"}, pv \in {<<>>, <<5000>>}, sg \in {"Semua", "BELI"},
      sym \in {Blank, <<"b","b","c","a">>}, d \in {"asc", "desc"} }

\* the brokers the <select> can offer for some broker aggregation, or before any
SelectableBrokers ==
    UNION { Range(brokerOpts(a)) :
            a \in {JsNullObj} \cup
                  { [kind |-> "broker-agg", date |-> D1, rows |-> rs] :
                    rs \in SeqsUpTo({ [top_buyer |-> b] : b \in TopBuyers }, MaxRows) } }

EngineInit ==
    /\ PageInit
    /\ ClientInit
    /\ TableInit
    /\ fnResult = NoArgs
    /\ \/ fnArgs \in { [fn |-> "BrokerFilter", rows |-> rs, broker |-> b] :
                       rs \in SeqsUpTo(BuyerRows, MaxRows), b \in SelectableBrokers }
       \/ fnArgs \in { [fn |-> "PriceFilter", rows |-> rs, priceCond |-> c,
                        priceValue |-> pv] :
                       rs \in SeqsUpTo(PriceRows, MaxRows), c \in {"diatas", "dibawah"},
                       pv \in {<<>>} \cup { <<h>> : h \in Prices } }
       \/ fnArgs \in { [fn |-> "SignalFilter", rows |-> rs, signal |-> sg] :
                       rs \in SeqsUpTo(SignalRows, MaxRows),
                       sg \in {"Semua", "BELI", "JUAL"} }
       \/ fnArgs \in { [fn |-> "SymbolFilter", rows |-> rs, symbolExact |-> sym] :
                       rs \in SeqsUpTo(SymbolRows, MaxRows), sym \in SymbolRequests }
       \/ fnArgs \in { [fn |-> "FilterAndSort", rows |-> rs, ctx |-> c] :
                       rs \in SeqsUpTo(MixedRows, MaxRows), c \in EngineCriteria }

RunBrokerFilter ==
    /\ fnArgs.fn = "BrokerFilter" /\ fnResult = NoArgs
    /\ fnResult' = [fn |-> "BrokerFilter", out |-> BrokerFilter(fnArgs.rows, fnArgs.broker)]
    /\ UNCHANGED <<pageVars, clientVars, tableVars, fnArgs>>

RunPriceFilter ==
    /\ fnArgs.fn = "PriceFilter" /\ fnResult = NoArgs
    /\ fnResult' = [fn |-> "PriceFilter",
                    out |-> PriceFilter(fnArgs.rows, fnArgs.priceCond, fnArgs.priceValue)]
    /\ UNCHANGED <<pageVars, clientVars, tableVars, fnArgs>>

RunSignalFilter ==
    /\ fnArgs.fn = "SignalFilter" /\ fnResult = NoArgs
    /\ fnResult' = [fn |-> "SignalFilter", out |-> SignalFilter(fnArgs.rows, fnArgs.signal)]
    /\ UNCHANGED <<pageVars, clientVars, tableVars, fnArgs>>

RunSymbolFilter ==
    /\ fnArgs.fn = "SymbolFilter" /\ fnResult = NoArgs
    /\ fnResult' = [fn |-> "SymbolFilter",
                    out |-> SymbolFilter(fnArgs.rows, fnArgs.symbolExact)]
    /\ UNCHANGED <<pageVars, clientVars, tableVars, fnArgs>>

\* lines 195-233 on the rows and the criteria of fnArgs
RunFilterAndSort ==
    /\ fnArgs.fn = "FilterAndSort" /\ fnResult = NoArgs
    /\ fnResult' = [fn |-> "FilterAndSort", out |-> FilterAndSort(fnArgs.rows, fnArgs.ctx)]
    /\ UNCHANGED <<pageVars, clientVars, tableVars, fnArgs>>

EngineNext ==
    \/ RunBrokerFilter
    \/ RunPriceFilter
    \/ RunSignalFilter
    \/ RunSymbolFilter
    \/ RunFilterAndSort

SpecEngine == EngineInit /\ [][EngineNext]_vars

----------------------------------------------------------------------------
(* The remote data client: getJson of api.ts, lines 6-25, and its callers *)

\* calls made in one run of the client's specification
MaxCalls == 2

\* text.slice(0, 300)
SnippetLength == 300

\* n times the character x
Filler(n) == [i \in 1..n |-> "x"]

\* a JSON string literal of n characters
Quoted(n) == <<"\"">> \o Filler(n - 2) \o <<"\"">>

EmptyObjectText == <<"{", "}">>

\* {"rows":[]}
RowsObjectText == <<"{", "\"", "r", "o", "w", "s", "\"", ":", "[", "]", "}">>

\* response bodies: nothing, JSON texts, and texts that are no JSON, around 300 characters
Bodies ==
    {Blank, EmptyObjectText, RowsObjectText, Filler(SnippetLength),
     Filler(SnippetLength + 1), Quoted(SnippetLength + 2)}

\* does JSON.parse accept the text (on the texts of Bodies)
JsonValid(text) ==
    \/ text \in {EmptyObjectText, RowsObjectText}
    \/ /\ Len(text) >= 2 /\ text[1] = "\"" /\ text[Len(text)] = "\""
       /\ \A i \in 2..(Len(text) - 1) : text[i] # "\""

\* JSON.parse(text) for a text it accepts: the kind of value and its own keys
JsonParse(text) ==
    IF text = EmptyObjectText THEN [json |-> "object", keys |-> {}]
    ELSE IF text = RowsObjectText THEN [json |-> "object", keys |-> {"rows"}]
    ELSE [json |-> "string", keys |-> {}]

\* String.prototype.slice(0, n)
SliceTo(text, n) == SubSeq(text, 1, Min(n, Len(text)))

\* res.ok
ResponseOk(status) == status >= 200 /\ status <= 299

Responses == { [status |-> st, body |-> b] : st \in {200, 404}, b \in Bodies }

\* faulty variant: a body that decodes is returned whatever the status
GetJsonDecodeFirst(url, res) ==
    IF JsonValid(res.body)
    THEN [kind |-> "value", value |-> JsonParse(res.body)]
    ELSE IF ~ResponseOk(res.status)
    THEN [kind |-> "error", type |-> "transport", status |-> res.status,
          snippet |-> SliceTo(res.body, SnippetLength)]
    ELSE [kind |-> "error", type |-> "decode", url |-> url,
          snippet |-> SliceTo(res.body, SnippetLength)]

\* faulty variant: the decode error carries the whole body and no URL
GetJsonBareDecodeError(url, res) ==
    IF ~ResponseOk(res.status)
    THEN [kind |-> "error", type |-> "transport", status |-> res.status,
          snippet |-> SliceTo(res.body, SnippetLength)]
    ELSE IF JsonValid(res.body)
    THEN [kind |-> "value", value |-> JsonParse(res.body)]
    ELSE [kind |-> "error", type |-> "decode", url |-> Null, snippet |-> res.body]

\* getJson once the response and its text have arrived: what it returns or throws
GetJsonResult(url, res) ==
    IF ~ResponseOk(res.status)
    THEN [kind |-> "error", type |-> "transport", status |-> res.status,
          snippet |-> SliceTo(res.body, SnippetLength)]
    ELSE IF JsonValid(res.body)
    THEN [kind |-> "value", value |-> JsonParse(res.body)]
    ELSE [kind |-> "error", type |-> "decode", url |-> url,
          snippet |-> SliceTo(res.body, SnippetLength)]

\* the operations a caller can invoke, with their arguments
ClientRequests ==
    {apiHealth("call"), apiSnapshot("call", D1), apiSignals("call", D1, D1, DefaultThreshold)}

NoResponse == [status |-> 0, body |-> Blank]

\* faulty variant: an earlier call of the same URL that returned serves the result
ClientCallCached(req) ==
    /\ Len(calls) < MaxCalls
    /\ IF \E i \in 1..Len(calls) : calls[i].url = req /\ calls[i].result.kind = "value"
       THEN LET i == CHOOSE i \in 1..Len(calls) :
                        calls[i].url = req /\ calls[i].result.kind = "value"
            IN /\ calls' = Append(calls, calls[i])
               /\ UNCHANGED fetches
       ELSE /\ calls' = Append(calls, [url |-> req, pc |-> "fetch", response |-> NoResponse,
                                       result |-> Pending])
            /\ fetches' = Append(fetches, [url |-> req, cache |-> "no-store"])
    /\ UNCHANGED <<pageVars, tableVars, fnVars>>

\* a caller invokes an operation: getJson up to `await fetch(url, { cache: "no-store" })`
ClientCall(req) ==
    /\ Len(calls) < MaxCalls
    /\ calls' = Append(calls, [url |-> req, pc |-> "fetch", response |-> NoResponse,
                               result |-> Pending])
    /\ fetches' = Append(fetches, [url |-> req, cache |-> "no-store"])
    /\ UNCHANGED <<pageVars, tableVars, fnVars>>

\* the response of call i arrives: the rest of getJson
ClientResponse(i, res) ==
    /\ i \in 1..Len(calls) /\ calls[i].pc = "fetch"
    /\ calls' = [calls EXCEPT ![i] = [url |-> calls[i].url, pc |-> "done", response |-> res,
                                      result |-> GetJsonResult(calls[i].url, res)]]
    /\ UNCHANGED <<fetches, pageVars, tableVars, fnVars>>

\* fetch rejects (no response at all): the rejection leaves getJson as it is
ClientFetchRejected(i) ==
    /\ i \in 1..Len(calls) /\ calls[i].pc = "fetch"
    /\ calls' = [calls EXCEPT ![i] = [url |-> calls[i].url, pc |-> "done",
                                      response |-> NoResponse,
                                      result |-> [kind |-> "error", type |-> "network"]]]
    /\ UNCHANGED <<fetches, pageVars, tableVars, fnVars>>

ClientNext ==
    \/ \E req \in ClientRequests : ClientCall(req)
    \/ \E i \in 1..Len(calls), res \in Responses : ClientResponse(i, res)
    \/ \E i \in 1..Len(calls) : ClientFetchRejected(i)

ClientSpecInit ==
    /\ PageInit
    /\ ClientInit
    /\ TableInit
    /\ fnArgs = NoArgs
    /\ fnResult = NoArgs

SpecClient == ClientSpecInit /\ [][ClientNext]_vars

----------------------------------------------------------------------------
(* The tabular renderer: DataTable, part_002 lines 358-501, and toCSV *)

\* a record is the sequence of its own properties, in insertion order
Keys(r) == [i \in 1..Len(r) |-> r[i].k]

\* r[key]
Get(r, key) ==
    IF \E i \in 1..Len(r) : r[i].k = key
    THEN r[CHOOSE i \in 1..Len(r) : r[i].k = key].v
    ELSE JsUndefined

\* String(v ?? "")
Shown(v) == IF v.kind \in {"null", "undefined"} THEN Blank ELSE ToStr(v)

\* String.prototype.includes
Includes(text, q) ==
    \E i \in 0..(Len(text) - Len(q)) : SubSeq(text, i + 1, i + Len(q)) = q

\* rows && rows.length > 0 ? Object.keys(rows[0]) : []
cols == IF tableRows # <<>> THEN Keys(tableRows[1]) ELSE <<>>

\* faulty variant: a blank query is searched for like any other
filteredLiteral ==
    IF tableRows = <<>> THEN <<>>
    ELSE SelectSeq(tableRows,
                   LAMBDA r : \E i \in 1..Len(cols) :
                                 Includes(ToLowerCase(Shown(Get(r, cols[i]))),
                                          ToLowerCase(query)))

\* the memo `filtered`
filtered ==
    IF tableRows = <<>> THEN <<>>
    ELSE IF Trim(query) = Blank THEN tableRows
    ELSE SelectSeq(tableRows,
                   LAMBDA r : \E i \in 1..Len(cols) :
                                 Includes(ToLowerCase(Shown(Get(r, cols[i]))),
                                          ToLowerCase(query)))

Sign(n) == IF n < 0 THEN -1 ELSE IF n > 0 THEN 1 ELSE 0

\* faulty variant: the values are always compared as strings
TableCompareStrings(av, bv, asc) ==
    IF asc THEN localeCompare(ToStr(av), ToStr(bv))
           ELSE localeCompare(ToStr(bv), ToStr(av))

\* the comparator of `sorted` on the two values, as a sign
TableCompare(av, bv, asc) ==
    LET na == ToNumber(av)
        nb == ToNumber(bv)
        bothNum == na.kind # "nan" /\ nb.kind # "nan"
    IN IF bothNum THEN (IF asc THEN Sign(na.v - nb.v) ELSE Sign(nb.v - na.v))
       ELSE IF asc THEN localeCompare(ToStr(av), ToStr(bv))
                   ELSE localeCompare(ToStr(bv), ToStr(av))

RECURSIVE TableInsert(_, _, _, _)
\* x placed after every element that does not compare greater than it
TableInsert(key, asc, s, x) ==
    IF s = <<>> THEN <<x>>
    ELSE IF TableCompare(Get(Head(s), key), Get(x, key), asc) <= 0
         THEN <<Head(s)>> \o TableInsert(key, asc, Tail(s), x)
         ELSE <<x>> \o s

RECURSIVE TableSort(_, _, _)
\* [...filtered].sort(comparator)
TableSort(rs, key, asc) ==
    IF rs = <<>> THEN <<>>
    ELSE TableInsert(key, asc, TableSort(SubSeq(rs, 1, Len(rs) - 1), key, asc), rs[Len(rs)])

\* the memo `sorted`: the rows the table body shows
sorted ==
    IF ~sortable \/ sortKey = Null THEN filtered
    ELSE TableSort(filtered, sortKey, sortAsc)

Newline == "\n"

\* \s on the characters of the model
IsSpace(c) == c = Space \/ c = Newline

RECURSIVE DoubleQuotes(_)
\* s.replace(/"/g, '""')
DoubleQuotes(t) ==
    IF t = <<>> THEN <<>>
    ELSE (IF Head(t) = "\"" THEN <<"\"", "\"">> ELSE <<Head(t)>>) \o DoubleQuotes(Tail(t))

\* faulty variant: white space at the ends is not a reason to quote
escapeCellInnerOnly(val) ==
    IF val.kind \in {"null", "undefined"} THEN Blank
    ELSE LET t == ToStr(val)
         IN IF \E i \in 1..Len(t) : t[i] \in {"\"", ",", Newline}
            THEN <<"\"">> \o DoubleQuotes(t) \o <<"\"">>
            ELSE DoubleQuotes(t)

\* escapeCell of toCSV
escapeCell(val) ==
    IF val.kind \in {"null", "undefined"} THEN Blank
    ELSE LET t == ToStr(val)
         IN IF \/ \E i \in 1..Len(t) : t[i] \in {"\"", ",", Newline}
               \/ t # <<>> /\ (IsSpace(t[1]) \/ IsSpace(t[Len(t)]))
            THEN <<"\"">> \o DoubleQuotes(t) \o <<"\"">>
            ELSE DoubleQuotes(t)

RECURSIVE Join(_, _)
\* Array.prototype.join on an array of strings
Join(parts, sep) ==
    IF parts = <<>> THEN <<>>
    ELSE IF Len(parts) = 1 THEN parts[1]
    ELSE parts[1] \o sep \o Join(Tail(parts), sep)

\* the optional argument cols of toCSV: <<>> when it is left out, <<array>> when
\* it is given
NoCols == <<>>

\* toCSV(rows, cols): the given columns when there are some, else the keys of
\* the first record; the header line, then one line per record
toCSV(rs, cs) ==
    LET columns == IF cs # NoCols /\ cs[1] # <<>> THEN cs[1]
                   ELSE IF rs # <<>> THEN Keys(rs[1])
                   ELSE <<>>
        header == Join(columns, <<",">>)
        lines == [i \in 1..Len(rs) |->
                    Join([j \in 1..Len(columns) |-> escapeCell(Get(rs[i], columns[j]))],
                         <<",">>)]
    IN Join(<<header>> \o lines, <<Newline>>)

\* the search box (shown when searchable): setQuery(e.target.value)
SetQuery(q) ==
    /\ searchable
    /\ query' = q
    /\ UNCHANGED <<tableProps, sortKey, sortAsc, downloadVars, pageVars, clientVars, fnVars>>

\* faulty variant: a newly selected column keeps the direction
onSortKeepDirection(key) ==
    /\ IF ~sortable THEN UNCHANGED <<sortKey, sortAsc>>
       ELSE IF sortKey = key THEN sortAsc' = ~sortAsc /\ UNCHANGED sortKey
       ELSE sortKey' = key /\ UNCHANGED sortAsc
    /\ UNCHANGED <<tableProps, query, downloadVars, pageVars, clientVars, fnVars>>

\* a click on the header of column key
onSort(key) ==
    /\ IF ~sortable THEN UNCHANGED <<sortKey, sortAsc>>
       ELSE IF sortKey = key THEN sortAsc' = ~sortAsc /\ UNCHANGED sortKey
       ELSE sortKey' = key /\ sortAsc' = TRUE
    /\ UNCHANGED <<tableProps, query, downloadVars, pageVars, clientVars, fnVars>>

\* faulty variant: the object URL is never revoked
StartDownloadLeaking(csv, filename) ==
    LET url == urlsMade + 1
    IN /\ urlsMade < MaxDownloads
       /\ urlsMade' = url
       /\ download' = [name |-> filename, content |-> csv, href |-> url]
       /\ objectUrls' = objectUrls \cup {url}

\* a Blob of the text, URL.createObjectURL(blob), an <a> with href and download
\* set, a.click(), URL.revokeObjectURL(url): the handle made is the next one
StartDownload(csv, filename) ==
    LET url == urlsMade + 1
        made == objectUrls \cup {url}
    IN /\ urlsMade < MaxDownloads
       /\ urlsMade' = url
       /\ download' = [name |-> filename, content |-> csv, href |-> url]
       /\ objectUrls' = made \ {url}

\* faulty variant: the export takes the rows found by the search, unsorted
ExportFiltered ==
    /\ exportable
    /\ StartDownload(toCSV(filtered, NoCols), "table.csv")
    /\ UNCHANGED <<tableProps, query, sortKey, sortAsc, pageVars, clientVars, fnVars>>

\* the Export CSV button (shown when exportable)
Export ==
    /\ exportable
    /\ StartDownload(toCSV(sorted, NoCols), "table.csv")
    /\ UNCHANGED <<tableProps, query, sortKey, sortAsc, pageVars, clientVars, fnVars>>

\* saveAs(csvContent, filename), called here with the serialized input rows
saveAs(csvContent, filename) ==
    /\ StartDownload(csvContent, filename)
    /\ UNCHANGED <<tableProps, query, sortKey, sortAsc, pageVars, clientVars, fnVars>>

KeyS == <<"s">>

KeyP == <<"p">>

KeyN == <<"n">>

\* flat records with strings, numbers, numeric strings, null, and differing keys
TableRowSet ==
    { << [k |-> KeyS, v |-> Str(<<"A", "b", "c">>)], [k |-> KeyP, v |-> Num(10)] >>,
      << [k |-> KeyS, v |-> Str(<<"b", " ", "c">>)], [k |-> KeyP, v |-> Num(9)] >>,
      << [k |-> KeyS, v |-> Str(<<"9">>)], [k |-> KeyP, v |-> JsNull] >>,
      << [k |-> KeyP, v |-> Str(<<"x">>)], [k |-> KeyN, v |-> Str(<<"b", "c">>)] >>,
      << [k |-> KeyS, v |-> Str(<<"1", "0">>)] >> }

\* what the operator can type in the search box
Queries == {Blank, <<" ">>, <<"B", "c">>, <<"z">>}

\* the capabilities all on, and each one off
Capabilities ==
    {<<TRUE, TRUE, TRUE>>, <<FALSE, TRUE, TRUE>>, <<TRUE, FALSE, TRUE>>, <<TRUE, TRUE, FALSE>>}

TableSpecInit ==
    /\ PageInit
    /\ ClientInit
    /\ tableRows \in SeqsUpTo(TableRowSet, MaxRows)
    /\ \E c \in Capabilities : searchable = c[1] /\ sortable = c[2] /\ exportable = c[3]
    /\ query = Blank
    /\ sortKey = Null
    /\ sortAsc = TRUE
    /\ download = NoDownload
    /\ objectUrls = {}
    /\ urlsMade = 0
    /\ fnArgs = NoArgs
    /\ fnResult = NoArgs

TableNext ==
    \/ \E q \in Queries : SetQuery(q)
    \/ \E i \in 1..Len(cols) : onSort(cols[i])
    \/ Export

SpecTable == TableSpecInit /\ [][TableNext]_vars

\* the table together with a caller of saveAs
FileNames == {"signals.csv"}

DownloadNext ==
    \/ TableNext
    \/ \E f \in FileNames : saveAs(toCSV(tableRows, NoCols), f)

SpecDownload == TableSpecInit /\ [][DownloadNext]_vars

\* the table over one column of mixed values: two strings that are numbers and
\* one that is not
OrderRows ==
    { << [k |-> KeyS, v |-> Str(<<"1", "0">>)] >>,
      << [k |-> KeyS, v |-> Str(<<"5", "a">>)] >>,
      << [k |-> KeyS, v |-> Str(<<"9">>)] >> }

OrderInit ==
    /\ PageInit
    /\ ClientInit
    /\ tableRows \in SeqsUpTo(OrderRows, Cardinality(OrderRows))
    /\ searchable = TRUE /\ sortable = TRUE /\ exportable = TRUE
    /\ query = Blank
    /\ sortKey = Null
    /\ sortAsc = TRUE
    /\ download = NoDownload
    /\ objectUrls = {}
    /\ urlsMade = 0
    /\ fnArgs = NoArgs
    /\ fnResult = NoArgs

SpecOrder == OrderInit /\ [][TableNext]_vars

----------------------------------------------------------------------------
(* The serializer on its own: toCSV and its escapeCell on the inputs below *)

\* the characters of the cells: a plain one, and the ones the escaping is about
CsvChars == {"a", ",", "\"", Newline, Space}

\* strings, numbers, null and a missing value
CellValues ==
    { Str(t) : t \in SeqsUpTo(CsvChars, MaxLen) } \cup {Num(0), Num(10), JsNull, JsUndefined}

KeyComma == <<"a", ",", "b">>

KeyNewline == <<"a", Newline, "b">>

\* records over the columns s and p, one whose only column name holds a comma,
\* one whose only column name holds a newline, and one without columns
CsvRecords ==
    { << [k |-> KeyS, v |-> a], [k |-> KeyP, v |-> b] >> :
          a \in {Str(<<"a">>), Str(<<",", "\"">>), JsNull},
          b \in {Num(10), Str(<<Newline, "a">>)} }
    \cup { << [k |-> KeyP, v |-> Str(<<" ">>)] >>,
           << [k |-> KeyComma, v |-> Num(0)] >>,
           << [k |-> KeyNewline, v |-> Num(0)] >>,
           << >> }

\* the cols argument: left out, empty, and two column lists
CsvCols == {NoCols, << <<>> >>, << <<KeyP, KeyS>> >>, << <<KeyN>> >>}

CsvInit ==
    /\ PageInit
    /\ ClientInit
    /\ TableInit
    /\ fnArgs \in { [fn |-> "escapeCell", val |-> v] : v \in CellValues }
               \cup { [fn |-> "toCSV", rows |-> rs, cols |-> cs] :
                          rs \in SeqsUpTo(CsvRecords, MaxRows), cs \in CsvCols }
    /\ fnResult = NoArgs

RunEscapeCell ==
    /\ fnArgs.fn = "escapeCell" /\ fnResult = NoArgs
    /\ fnResult' = [fn |-> "escapeCell", out |-> escapeCell(fnArgs.val)]
    /\ UNCHANGED <<pageVars, clientVars, tableVars, fnArgs>>

RunToCSV ==
    /\ fnArgs.fn = "toCSV" /\ fnResult = NoArgs
    /\ fnResult' = [fn |-> "toCSV", out |-> toCSV(fnArgs.rows, fnArgs.cols)]
    /\ UNCHANGED <<pageVars, clientVars, tableVars, fnArgs>>

CsvNext == RunEscapeCell \/ RunToCSV

SpecCsv == CsvInit /\ [][CsvNext]_vars

----------------------------------------------------------------------------
(* Properties *)

\* the state boot() may write besides loading
bootWrites == <<hasModel, target, threshold, snap, agg, dateFrom, dateTo>>

\* C1: a failed read never leaves boot() or applyFilters() as an unhandled
\* rejection, and after a failed applyFilters the row set is empty.
C1_FailuresCaught ==
    /\ unhandled = 0
    /\ applyPc = "failed" => rows = <<>>

\* C2: whenever boot's join completes, in whatever state the page then is (also
\* after an applyFilters started later has completed), boot's results replace the
\* snapshot, the broker aggregation, the threshold and, when the snapshot has a
\* date, the date range.
C2_BootOverwrites ==
    [][(bootPc = "await" /\ bootPc' = "done") =>
          /\ snap' = bootGot'["snapshot"]
          /\ agg' = bootGot'["broker-agg"]
          /\ threshold' = ClampDefault(ToNumber(bootGot'["health"].threshold_default))
          /\ Truthy(bootGot'["snapshot"].date) =>
                (dateFrom' = bootGot'["snapshot"].date /\ dateTo' = bootGot'["snapshot"].date)
      ]_vars

\* boot-start, apply-start, apply-resolve, boot-resolve: the apply has completed,
\* and what it wrote has been replaced by boot's results
C2_Witness ==
    /\ bootPc = "done" /\ applyPc = "ok"
    /\ snap = bootGot["snapshot"] /\ snap # applyGot["snapshot"]
    /\ agg = bootGot["broker-agg"] /\ agg # applyGot["broker-agg"]
    /\ dateTo = snap.date /\ dateTo # applyCtx.to
    /\ threshold # applyCtx.thr

\* C3: a step of boot changes hasModel, target, threshold, snapshot, broker
\* aggregation, dateFrom or dateTo only when it completes the join with all three
\* reads resolved; a rejection changes none of them.
C3_BootAllOrNothing ==
    [][(bootPc' # bootPc \/ bootGot' # bootGot) =>
          \/ /\ bootPc' = "done"
             /\ \A op \in BootOps : bootGot'[op].kind \notin {"pending", "resolved"}
          \/ UNCHANGED bootWrites
      ]_vars

\* boot failed on its third read, after the other two had resolved
C3_Witness ==
    /\ bootPc = "failed"
    /\ Cardinality({ op \in BootOps : bootGot[op] = Resolved }) = 2

\* C4: once an applyFilters run has finished (success, failure or empty dates)
\* busy is false, once boot has finished loading is false, and when every
\* request is eventually answered busy and loading are eventually false.
C4_Retriable ==
    /\ [](applyPc \in {"ok", "failed", "empty"} => ~busyApply)
    /\ [](bootPc \in {"done", "failed"} => ~loading)
    /\ busyApply ~> ~busyApply
    /\ <>[](~loading)

\* both boot and an applyFilters run have failed, and the controls are live
C4_Witness ==
    /\ bootPc = "failed" /\ ~loading
    /\ applyPc = "failed" /\ ~busyApply

\* C5: every signals request awaiting its answer carries a threshold in (0, 1].
C5_ThresholdInRange ==
    \A r \in net : r.op = "signals" => (r.threshold > 0 /\ r.threshold <= 100)

\* the threshold control holds 0 and the request carries the default instead
C5_Witness ==
    /\ threshold = 0
    /\ \E r \in net : r.op = "signals" /\ r.threshold = DefaultThreshold

C7_EmptyDatesNoRequest ==
    [][(ApplyFilters /\ dateFrom = Blank /\ dateTo = Blank) =>
          (rows' = <<>> /\ net' = net /\ UNCHANGED <<snap, agg>>)
      ]_vars

\* Apply has run with both dates empty, after boot had delivered a snapshot
C7_Witness ==
    /\ applyPc = "empty" /\ dateFrom = Blank /\ dateTo = Blank
    /\ bootPc = "done" /\ snap = bootGot["snapshot"] /\ agg = bootGot["broker-agg"]
    /\ rows = <<>> /\ net = {}

\* the date that is not empty when exactly one of them is
OnlyDate == IF dateFrom = Blank THEN dateTo ELSE dateFrom

\* C8: Apply with exactly one date empty sends the three reads, the signals
\* request with from = to = the other date and the snapshot and broker-aggregation
\* reads for that same date.
C8_BlankBoundDefaults ==
    [][(ApplyFilters /\ (dateFrom = Blank) # (dateTo = Blank)) =>
          /\ { r.op : r \in net' \ net } = ApplyOps
          /\ \A r \in net' \ net :
                /\ r.op = "signals" => (r.from = OnlyDate /\ r.to = OnlyDate)
                /\ r.op \in {"snapshot", "broker-agg"} => r.date = OnlyDate
      ]_vars

\* dateFrom is empty and the reads in flight are all for dateTo
C8_Witness ==
    /\ dateFrom = Blank /\ dateTo # Blank /\ applyPc = "await"
    /\ \E r \in net : r.op = "signals" /\ r.from = dateTo /\ r.to = dateTo
    /\ \E r \in net : r.join = "apply" /\ r.op = "snapshot" /\ r.date = dateTo
    /\ \E r \in net : r.join = "apply" /\ r.op = "broker-agg" /\ r.date = dateTo

HasNoBuyer(r) == r.top_buyer \in {NullBuyer, AbsentBuyer}

\* C9: with the "all" sentinel the broker predicate returns its input; with a
\* broker the selector can offer it keeps exactly the rows whose top buyer is
\* that broker, in their order, and so no row without a top buyer.
C9_BrokerPredicate ==
    fnResult.fn = "BrokerFilter" =>
        /\ fnArgs.broker = AllBrokers => fnResult.out = fnArgs.rows
        /\ fnArgs.broker # AllBrokers =>
              /\ fnResult.out = SelectSeq(fnArgs.rows,
                                          LAMBDA r : r.top_buyer = fnArgs.broker)
              /\ \A i \in 1..Len(fnResult.out) : ~HasNoBuyer(fnResult.out[i])

\* a row of the broker is kept and a row without top buyer is dropped
C9_Witness ==
    /\ fnResult.fn = "BrokerFilter" /\ fnArgs.broker = "AK"
    /\ \E i \in 1..Len(fnArgs.rows) : HasNoBuyer(fnArgs.rows[i])
    /\ Len(fnResult.out) = 1

\* C10: with no price value the price predicate returns its input; with one (0
\* too) it keeps exactly the rows with harga >= value under "diatas" and
\* harga <= value under "dibawah".
C10_PricePredicate ==
    fnResult.fn = "PriceFilter" =>
        /\ fnArgs.priceValue = <<>> => fnResult.out = fnArgs.rows
        /\ fnArgs.priceValue # <<>> =>
              fnResult.out =
                  SelectSeq(fnArgs.rows,
                            LAMBDA r : \/ /\ fnArgs.priceCond = "diatas"
                                          /\ r.harga >= fnArgs.priceValue[1]
                                       \/ /\ fnArgs.priceCond = "dibawah"
                                          /\ r.harga <= fnArgs.priceValue[1])

\* value 0 under "dibawah": the row priced 0 is kept, the row priced 5000 is not
C10_Witness ==
    /\ fnResult.fn = "PriceFilter"
    /\ fnArgs.priceValue = <<0>> /\ fnArgs.priceCond = "dibawah"
    /\ Len(fnArgs.rows) = 2 /\ fnArgs.rows[1].harga = 5000 /\ fnArgs.rows[2].harga = 0
    /\ Len(fnResult.out) = 1 /\ fnResult.out[1].harga = 0

\* C11: under "Semua" the signal predicate returns its input; under BELI it keeps
\* exactly the BELI rows, under JUAL exactly the JUAL KUAT rows, in their order;
\* a row with neither signal is kept only under "Semua".
C11_SignalPredicate ==
    fnResult.fn = "SignalFilter" =>
        /\ fnArgs.signal = "Semua" => fnResult.out = fnArgs.rows
        /\ fnArgs.signal = "BELI" =>
              fnResult.out = SelectSeq(fnArgs.rows, LAMBDA r : r.sinyal = "BELI")
        /\ fnArgs.signal = "JUAL" =>
              fnResult.out = SelectSeq(fnArgs.rows, LAMBDA r : r.sinyal = "JUAL KUAT")
        /\ fnArgs.signal # "Semua" =>
              \A i \in 1..Len(fnResult.out) : fnResult.out[i].sinyal # NoSignal

\* under JUAL, of a row without signal and a JUAL KUAT row only the second is kept
C11_Witness ==
    /\ fnResult.fn = "SignalFilter" /\ fnArgs.signal = "JUAL"
    /\ Len(fnArgs.rows) = 2
    /\ fnArgs.rows[1].sinyal = NoSignal /\ fnArgs.rows[2].sinyal = "JUAL KUAT"
    /\ fnResult.out = <<fnArgs.rows[2]>>

\* a and b are the same string up to the case of their letters
SameIgnoringCase(a, b) ==
    /\ Len(a) = Len(b)
    /\ \A i \in 1..Len(a) : LowerChar(a[i]) = LowerChar(b[i])

\* C12: with a symbol that is blank after trimming the symbol predicate returns
\* its input; otherwise it keeps exactly the rows whose symbol is the trimmed
\* request up to letter case, so no row whose symbol only contains the request.
C12_SymbolPredicate ==
    fnResult.fn = "SymbolFilter" =>
        /\ Trim(fnArgs.symbolExact) = Blank => fnResult.out = fnArgs.rows
        /\ Trim(fnArgs.symbolExact) # Blank =>
              fnResult.out =
                  SelectSeq(fnArgs.rows,
                            LAMBDA r : SameIgnoringCase(r.saham, Trim(fnArgs.symbolExact)))

\* the request "bbca" keeps the row BBCA and drops the row BBCAR
C12_Witness ==
    /\ fnResult.fn = "SymbolFilter" /\ fnArgs.symbolExact = <<"b","b","c","a">>
    /\ Len(fnArgs.rows) = 2
    /\ fnArgs.rows[1].saham = <<"B","B","C","A","R">> /\ fnArgs.rows[2].saham = BBCA
    /\ fnResult.out = <<fnArgs.rows[2]>>

DigitOf(c) ==
    CASE c = "0" -> 0 [] c = "1" -> 1 [] c = "2" -> 2 [] c = "3" -> 3 [] c = "4" -> 4

\* the ISO date yyyy-mm-dd as the number yyyymmdd
IsoNumber(d) ==
    DigitOf(d[1]) * 10000000 + DigitOf(d[2]) * 1000000 + DigitOf(d[3]) * 100000
    + DigitOf(d[4]) * 10000 + DigitOf(d[6]) * 1000 + DigitOf(d[7]) * 100
    + DigitOf(d[9]) * 10 + DigitOf(d[10])

\* the row passes the four predicates of the criteria c
Passes(r, c) ==
    /\ c.broker # AllBrokers => r.top_buyer = c.broker
    /\ c.priceValue # <<>> =>
          IF c.priceCond = "diatas" THEN r.harga >= c.priceValue[1]
                                    ELSE r.harga <= c.priceValue[1]
    /\ c.signal = "BELI" => r.sinyal = "BELI"
    /\ c.signal = "JUAL" => r.sinyal = "JUAL KUAT"
    /\ Trim(c.symbolExact) # Blank => SameIgnoringCase(r.saham, Trim(c.symbolExact))

\* C13: the engine's output is a permutation of the rows that pass the
\* predicates, ordered by date (non-decreasing under asc, non-increasing under
\* desc), rows of equal date in the order they had in the input.
C13_StableDateOrder ==
    fnResult.fn = "FilterAndSort" =>
        LET passed == SelectSeq(fnArgs.rows, LAMBDA r : Passes(r, fnArgs.ctx))
            out == fnResult.out
            n == Len(passed)
        IN /\ Len(out) = n
           /\ \A i \in 1..(n - 1) :
                 IF fnArgs.ctx.sortDate = "asc"
                 THEN IsoNumber(out[i].tanggal) <= IsoNumber(out[i + 1].tanggal)
                 ELSE IsoNumber(out[i].tanggal) >= IsoNumber(out[i + 1].tanggal)
           /\ \E p \in [1..n -> 1..n] :
                 /\ \A i, j \in 1..n : i # j => p[i] # p[j]
                 /\ \A i \in 1..n : out[i] = passed[p[i]]
                 /\ \A i, j \in 1..n :
                       (i < j /\ out[i].tanggal = out[j].tanggal) => p[i] < p[j]

\* under desc, two different rows of the same date have kept their input order
C13_Witness ==
    /\ fnResult.fn = "FilterAndSort" /\ fnArgs.ctx.sortDate = "desc"
    /\ fnArgs.ctx.signal = "BELI"
    /\ Len(fnResult.out) = 2
    /\ fnResult.out[1].tanggal = fnResult.out[2].tanggal
    /\ fnResult.out[1] # fnResult.out[2]
    /\ fnResult.out = SelectSeq(fnArgs.rows, LAMBDA r : r.sinyal = "BELI")

\* the call has received a response (fetch did not reject)
Answered(c) == c.pc = "done" /\ c.response # NoResponse

\* C14: a call whose response status is not a success has failed with a transport
\* error that carries the status and the first 300 characters of the body (the
\* whole body when it is shorter), also when the body is valid JSON.
C14_TransportError ==
    \A i \in 1..Len(calls) :
        (Answered(calls[i]) /\ ~(calls[i].response.status \in 200..299)) =>
            LET body == calls[i].response.body
                r == calls[i].result
            IN /\ r.kind = "error" /\ r.type = "transport"
               /\ r.status = calls[i].response.status
               /\ Len(r.snippet) = (IF Len(body) <= 300 THEN Len(body) ELSE 300)
               /\ \A k \in 1..Len(r.snippet) : r.snippet[k] = body[k]

\* status 404 with a body of 302 characters that is valid JSON: a transport error
\* with the first 300 of them
C14_Witness ==
    \E i \in 1..Len(calls) :
        /\ Answered(calls[i]) /\ calls[i].response.status = 404
        /\ calls[i].response.body = Quoted(302)
        /\ calls[i].result.kind = "error" /\ calls[i].result.type = "transport"
        /\ Len(calls[i].result.snippet) = 300

\* the body holds what the operation's response type declares at least in part
FitsShape(req, body) == req.op \in {"signals", "snapshot"} /\ body = RowsObjectText

\* C15 as stated: with a success status, a body that does not decode into the
\* expected shape makes the call fail with a decode error carrying URL and
\* excerpt, and a value is returned only for a body of that shape.
C15_AsStated ==
    \A i \in 1..Len(calls) :
        (Answered(calls[i]) /\ calls[i].response.status \in 200..299) =>
            IF FitsShape(calls[i].url, calls[i].response.body)
            THEN calls[i].result.kind = "value"
            ELSE /\ calls[i].result.kind = "error" /\ calls[i].result.type = "decode"
                 /\ calls[i].result.url = calls[i].url

\* C15 amended: with a success status, the call fails with a decode error
\* carrying the URL and the first 300 characters of the body exactly when the
\* body is no valid JSON; a valid JSON body is returned as parsed, whatever its
\* shape.
C15_DecodeError ==
    \A i \in 1..Len(calls) :
        (Answered(calls[i]) /\ calls[i].response.status \in 200..299) =>
            LET body == calls[i].response.body
                r == calls[i].result
            IN IF JsonValid(body)
               THEN r.kind = "value" /\ r.value = JsonParse(body)
               ELSE /\ r.kind = "error" /\ r.type = "decode"
                    /\ r.url = calls[i].url
                    /\ Len(r.snippet) = (IF Len(body) <= 300 THEN Len(body) ELSE 300)
                    /\ \A k \in 1..Len(r.snippet) : r.snippet[k] = body[k]

\* a health call answered 200 with {} has returned the empty object, and a call
\* answered 200 with 301 characters that are no JSON has failed with a decode error
C15_Witness ==
    /\ \E i \in 1..Len(calls) :
          /\ calls[i].url.op = "health" /\ calls[i].response.status = 200
          /\ calls[i].response.body = EmptyObjectText
          /\ calls[i].result = [kind |-> "value", value |-> [json |-> "object", keys |-> {}]]
    /\ \E i \in 1..Len(calls) :
          /\ calls[i].response.status = 200 /\ calls[i].response.body = Filler(301)
          /\ calls[i].result.kind = "error" /\ calls[i].result.type = "decode"
          /\ Len(calls[i].result.snippet) = 300

\* C16: the i-th call has issued the i-th fetch, for its own URL and bypassing
\* the HTTP cache, and nothing else has been fetched: one request per call,
\* whether the call is pending, has returned or has failed.
C16_OneRequestPerCall ==
    /\ Len(fetches) = Len(calls)
    /\ \A i \in 1..Len(calls) :
          fetches[i].url = calls[i].url /\ fetches[i].cache = "no-store"

\* two calls with the same arguments, the first returned and the second failed:
\* two fetches
C16_Witness ==
    /\ Len(calls) = 2 /\ Len(fetches) = 2
    /\ calls[1].url = calls[2].url
    /\ calls[1].result.kind = "value" /\ calls[2].result.kind = "error"

\* q occurs in text
Occurs(q, text) ==
    \E a \in 1..(Len(text) + 1) : \E b \in (a - 1)..Len(text) : SubSeq(text, a, b) = q

\* the lower-cased shown form of the row's value in one of the columns ks
\* contains the lower-cased query
Hit(r, ks) ==
    \E i \in 1..Len(ks) :
        Occurs(ToLowerCase(query), ToLowerCase(Shown(Get(r, ks[i]))))

\* C17 as stated: a row is retained iff one of its own values contains the
\* query, both lower-cased (every row for the empty query).
C17_AsStated ==
    filtered = SelectSeq(tableRows, LAMBDA r : Hit(r, Keys(r)))

\* C17 amended: a query that is empty or only white space retains every row in
\* the original order; any other query retains exactly the rows with a value, in
\* one of the table's columns (the keys of the first row), whose lower-cased
\* shown form contains the lower-cased query, so none when nothing matches.
C17_Search ==
    IF Trim(query) = Blank THEN filtered = tableRows
    ELSE filtered = SelectSeq(tableRows, LAMBDA r : Hit(r, Keys(tableRows[1])))

\* the query Bc has kept the second of two rows and dropped the first
C17_Witness ==
    /\ query = <<"B", "c">>
    /\ Len(tableRows) = 2 /\ filtered = <<tableRows[2]>>

\* C18: with sorting enabled a click on the selected column keeps it and flips
\* the direction, a click on another column selects it with the direction
\* ascending; with sorting disabled a click changes neither.
C18_SortState ==
    [][\A i \in 1..Len(cols) :
          onSort(cols[i]) =>
              IF ~sortable THEN UNCHANGED <<sortKey, sortAsc>>
              ELSE IF sortKey = cols[i]
                   THEN sortKey' = sortKey /\ sortAsc' = ~sortAsc
                   ELSE sortKey' = cols[i] /\ sortAsc' = TRUE
      ]_vars

\* the second column is selected, descending: it was clicked twice
C18_Witness ==
    /\ sortable /\ Len(cols) = 2
    /\ sortKey = cols[2] /\ ~sortAsc

\* the value parses as a number
Numeric(v) == ToNumber(v).kind = "num"

\* the comparison rule: numbers when both values parse as numbers, else strings;
\* the opposite sign for descending
Rule(av, bv, asc) ==
    LET base == IF Numeric(av) /\ Numeric(bv)
                THEN (IF ToNumber(av).v < ToNumber(bv).v THEN -1
                      ELSE IF ToNumber(av).v > ToNumber(bv).v THEN 1 ELSE 0)
                ELSE localeCompare(ToStr(av), ToStr(bv))
    IN IF asc THEN base ELSE 0 - base

\* v holds the rows of u, each as often, and neighbours in v are in the order
\* of the rule on column key
Ordered(v, u, key, asc) ==
    /\ Len(v) = Len(u)
    /\ \E p \in [1..Len(u) -> 1..Len(u)] :
          /\ \A i, j \in 1..Len(u) : i # j => p[i] # p[j]
          /\ \A i \in 1..Len(u) : v[i] = u[p[i]]
    /\ \A i \in 1..(Len(v) - 1) : Rule(Get(v[i], key), Get(v[i + 1], key), asc) <= 0

\* C19: with sorting enabled and a column selected, the comparator follows the
\* rule on every two rows and the rows shown are the rows found, neighbours in
\* the order of the rule; a missing value does not parse as a number; without
\* sorting or without a column the rows shown are the rows found, as they are.
C19_Comparison ==
    /\ ~Numeric(JsUndefined)
    /\ IF sortable /\ sortKey # Null
       THEN /\ \A i, j \in 1..Len(tableRows) :
                 TableCompare(Get(tableRows[i], sortKey), Get(tableRows[j], sortKey), sortAsc)
                    = Rule(Get(tableRows[i], sortKey), Get(tableRows[j], sortKey), sortAsc)
            /\ Ordered(sorted, filtered, sortKey, sortAsc)
       ELSE sorted = filtered

\* ascending on a column holding 10 and then 9: the row with 9 is shown first,
\* though "10" is the smaller string
C19_Witness ==
    /\ sortable /\ sortKey = KeyP /\ sortAsc
    /\ Len(tableRows) = 2
    /\ Get(tableRows[1], KeyP) = Num(10) /\ Get(tableRows[2], KeyP) = Num(9)
    /\ sorted = <<tableRows[2], tableRows[1]>>

\* the rows a correct table shows in the current state
Visible(v) ==
    /\ \E u \in SeqsUpTo(Range(tableRows), Len(tableRows)) :
          /\ u = IF Trim(query) = Blank THEN tableRows
                 ELSE SelectSeq(tableRows, LAMBDA r : Hit(r, Keys(tableRows[1])))
          /\ IF sortable /\ sortKey # Null THEN Ordered(v, u, sortKey, sortAsc) ELSE v = u
    /\ v = sorted

\* C20: an export offers a file named table.csv holding the serialization of the
\* rows visible at that moment (found by the search, in the sort order), and no
\* step of the table sends a request.
C20_ExportVisible ==
    [][/\ Export => /\ download'.name = "table.csv"
                    /\ \E v \in SeqsUpTo(Range(tableRows), Len(tableRows)) :
                          Visible(v) /\ download'.content = toCSV(v, NoCols)
       /\ UNCHANGED <<calls, fetches, net>>
      ]_vars

\* the file offered holds the two rows in the sorted order, which is not the
\* order of the input
C20_Witness ==
    /\ download.name = "table.csv"
    /\ Len(sorted) = 2 /\ sorted # tableRows
    /\ download.content = toCSV(sorted, NoCols)
    /\ download.content # toCSV(tableRows, NoCols)

\* the string form of a value that is neither null nor missing needs quoting
NeedsQuoting(t) ==
    \/ \E i \in 1..Len(t) : t[i] = "," \/ t[i] = "\"" \/ t[i] = Newline
    \/ t # <<>> /\ (t[1] \in {Space, Newline} \/ t[Len(t)] \in {Space, Newline})

\* the number of double quotes in t
Quotes(t) == Cardinality({i \in 1..Len(t) : t[i] = "\""})

RECURSIVE Undouble(_)
\* t with every pair of double quotes replaced by one
Undouble(t) ==
    IF t = <<>> THEN <<>>
    ELSE IF Len(t) >= 2 /\ t[1] = "\"" /\ t[2] = "\""
         THEN <<"\"">> \o Undouble(SubSeq(t, 3, Len(t)))
         ELSE <<t[1]>> \o Undouble(Tail(t))

\* cell is t between double quotes with every double quote of t doubled
QuotedForm(cell, t) ==
    /\ Len(cell) = Len(t) + Quotes(t) + 2
    /\ cell[1] = "\"" /\ cell[Len(cell)] = "\""
    /\ LET inner == SubSeq(cell, 2, Len(cell) - 1)
       IN Quotes(inner) = 2 * Quotes(t) /\ Undouble(inner) = t

\* cell is what the escaping rule makes of val
EscapedAs(cell, val) ==
    IF val.kind \in {"null", "undefined"} THEN cell = Blank
    ELSE IF NeedsQuoting(ToStr(val)) THEN QuotedForm(cell, ToStr(val))
    ELSE cell = ToStr(val)

\* C21: a null or missing value gives an empty cell; any other value is wrapped
\* in double quotes with its double quotes doubled exactly when its string form
\* holds a comma, a double quote or a newline, or begins or ends with white
\* space, and is emitted as it is otherwise.
C21_CellEscaping ==
    fnResult # NoArgs /\ fnResult.fn = "escapeCell" =>
        EscapedAs(fnResult.out, fnArgs.val)

\* a value with a double quote inside and a space at the end has been escaped
C21_Witness ==
    /\ fnResult # NoArgs /\ fnResult.fn = "escapeCell"
    /\ fnArgs.val = Str(<<"\"", Space>>)
    /\ fnResult.out = <<"\"", "\"", "\"", Space, "\"">>

RECURSIVE SplitFrom(_, _, _, _)
\* the pieces of t between the separators that stand outside double quotes;
\* cur is the piece begun, inq tells whether a double quote is open
SplitFrom(t, sep, inq, cur) ==
    IF t = <<>> THEN <<cur>>
    ELSE IF Head(t) = "\"" THEN SplitFrom(Tail(t), sep, ~inq, Append(cur, Head(t)))
    ELSE IF Head(t) = sep /\ ~inq THEN <<cur>> \o SplitFrom(Tail(t), sep, FALSE, <<>>)
    ELSE SplitFrom(Tail(t), sep, inq, Append(cur, Head(t)))

SplitUnquoted(t, sep) == SplitFrom(t, sep, FALSE, <<>>)

\* the column order the serializer is to use
ColumnOrder(rs, cs) ==
    IF cs # NoCols /\ cs[1] # <<>> THEN cs[1]
    ELSE IF rs # <<>> THEN Keys(rs[1])
    ELSE <<>>

\* the header line holds the column names, each escaped by the rule of the cells
HeaderEscaped(line, columns) ==
    IF columns = <<>> THEN line = Blank
    ELSE LET cells == SplitUnquoted(line, ",")
         IN /\ Len(cells) = Len(columns)
            /\ \A j \in 1..Len(columns) : EscapedAs(cells[j], Str(columns[j]))

\* the line of record r holds its cells in the order of the columns
DataLine(line, r, columns) ==
    IF columns = <<>> THEN line = Blank
    ELSE LET cells == SplitUnquoted(line, ",")
         IN /\ Len(cells) = Len(columns)
            /\ \A j \in 1..Len(columns) : EscapedAs(cells[j], Get(r, columns[j]))

\* one line per record after the first line, no newline after the last line,
\* each record's cells in the column order
LinesInOrder(out, rs, columns) ==
    LET lines == SplitUnquoted(out, Newline)
    IN /\ Len(lines) = Len(rs) + 1
       /\ \A i \in 1..Len(rs) : DataLine(lines[i + 1], rs[i], columns)

\* C22: the first line is the column names joined by commas, a name escaped like
\* a cell when it needs it; then one line per record, its cells in the column
\* order, the lines joined by newlines with none after the last; the columns
\* are the caller's when it gives some, else the keys of the first record, else
\* none.
C22_HeaderAndLayout ==
    fnResult # NoArgs /\ fnResult.fn = "toCSV" =>
        LET columns == ColumnOrder(fnArgs.rows, fnArgs.cols)
        IN /\ LinesInOrder(fnResult.out, fnArgs.rows, columns)
           /\ HeaderEscaped(SplitUnquoted(fnResult.out, Newline)[1], columns)

\* a cell read back: the double quotes around it dropped and the pairs inside
\* un-doubled
Unquote(cell) ==
    IF Len(cell) >= 2 /\ cell[1] = "\"" /\ cell[Len(cell)] = "\""
    THEN Undouble(SubSeq(cell, 2, Len(cell) - 1))
    ELSE cell

\* the lines after the first, split on unquoted commas, give back the string
\* forms of the values of the records in the column order
ValuesRecovered(lines, rs, columns) ==
    columns # <<>> =>
        \A i \in 1..Len(rs) :
            LET cells == SplitUnquoted(lines[i + 1], ",")
            IN /\ Len(cells) = Len(columns)
               /\ \A j \in 1..Len(columns) :
                     Unquote(cells[j]) = Shown(Get(rs[i], columns[j]))

\* C23: the serialized text of N records, split on unquoted newlines, has N + 1
\* lines, and each line after the header, split on unquoted commas and read
\* back, gives the original values of its record in the column order.
C23_RoundTrip ==
    fnResult # NoArgs /\ fnResult.fn = "toCSV" =>
        LET lines == SplitUnquoted(fnResult.out, Newline)
        IN /\ Len(lines) = Len(fnArgs.rows) + 1
           /\ ValuesRecovered(lines, fnArgs.rows, ColumnOrder(fnArgs.rows, fnArgs.cols))

\* C24: every download makes exactly one object URL, the next one, hands it to
\* the link it clicks and revokes it before it returns, so no object URL is
\* outstanding after any number of downloads.
C24_HandlesReleased ==
    /\ [](objectUrls = {})
    /\ [][download' # download =>
             /\ urlsMade' = urlsMade + 1
             /\ download'.href = urlsMade'
             /\ objectUrls' = {}]_vars

\* two downloads have been made, one by the table and one by saveAs, and no
\* object URL is left
C24_Witness ==
    /\ urlsMade = 2
    /\ download.href = 2 /\ download.name = "signals.csv" /\ download.content # Blank
    /\ objectUrls = {}

\* C25: busy is set exactly while an applyFilters run awaits its reads, and
\* between an Apply and the arrival of its result no second run starts (the
\* closure, the reads already answered and the requests sent stay as they
\* are) and no reset takes effect (the rows stay as they are).
C25_OneRunInFlight ==
    /\ [](busyApply <=> applyPc = "await")
    /\ [][busyApply /\ applyPc' = "await" =>
             /\ busyApply'
             /\ applyCtx' = applyCtx
             /\ net' \subseteq net
             /\ \A op \in ApplyOps : applyGot[op] # Pending => applyGot'[op] = applyGot[op]
             /\ rows' = rows]_vars

\* a run is in flight with one of its three reads answered, after an earlier run
\* has stored rows
C25_Witness ==
    /\ busyApply /\ applyPc = "await"
    /\ \E op \in ApplyOps : applyGot[op] # Pending
    /\ \E op \in ApplyOps : applyGot[op] = Pending
    /\ rows # <<>>

\* the filters as the controls show them, with the dates and the threshold as
\* applyFilters would send them
ShownCriteria ==
    [from |-> DefaultFrom(dateFrom, dateTo), to |-> DefaultTo(dateFrom, dateTo),
     thr |-> ClampThreshold(Num(threshold)), broker |-> broker, priceCond |-> priceCond,
     priceValue |-> priceValue, signal |-> signal, symbolExact |-> symbolExact,
     sortDate |-> sortDate]

\* C26: a run that starts takes the criteria of that moment; they stay with it
\* while its reads are in flight, whatever is edited; the rows it stores are the
\* rows those criteria select from the answer; and no step of applyFilters
\* changes a criterion.
C26_CriteriaAtTrigger ==
    /\ [][applyPc # "await" /\ applyPc' = "await" => applyCtx' = ShownCriteria]_vars
    /\ [][applyPc = "await" => applyCtx' = applyCtx]_vars
    /\ [][applyPc = "await" /\ applyPc' = "ok" =>
             rows' = FilterAndSort(applyGot'["signals"].rows, applyCtx)]_vars
    /\ [][<<busyApply, applyPc, applyGot>>' # <<busyApply, applyPc, applyGot>> =>
             criteria' = criteria]_vars

\* a run has resolved after the signal kind was changed while it was in flight:
\* the rows shown are not the rows the criteria shown would select
C26_Witness ==
    /\ applyPc = "ok"
    /\ signal # applyCtx.signal
    /\ rows = FilterAndSort(applyGot["signals"].rows, applyCtx)
    /\ rows # FilterAndSort(applyGot["signals"].rows, ShownCriteria)

\* C27: Reset sets the broker to the "all" entry, the price condition to above,
\* the price value, the symbol and the minimum volume ratio to unset, the signal
\* kind to all, the sort direction to descending, the threshold to 0.35 and the
\* rows to none; it leaves the dates, the snapshot and the broker aggregation as
\* they are and sends no request.
C27_ResetFrame ==
    [][Reset =>
         /\ broker' = "Semua Broker" /\ priceCond' = "diatas" /\ priceValue' = <<>>
         /\ symbolExact' = <<>> /\ volRatioMin' = <<>> /\ signal' = "Semua"
         /\ sortDate' = "desc" /\ threshold' = 35 /\ rows' = <<>>
         /\ UNCHANGED <<dateFrom, dateTo, snap, agg>>
         /\ net' = net /\ UNCHANGED <<calls, fetches>>]_vars

\* boot has read the default 0.5 and no control can give 0.35, so the
\* threshold is 0.35 by a Reset; the dates that boot set are still there
C27_Witness ==
    /\ bootPc = "done" /\ bootGot["health"].threshold_default = Num(50)
    /\ threshold = 35
    /\ dateFrom = D2 /\ dateTo = D2
    /\ agg # JsNullObj

\* C28: the broker selected is the "all" entry or one of the options offered,
\* the distinct non-empty top buyers of the current broker aggregation, also
\* after applyFilters has replaced the aggregation.
C28_BrokerOffered == broker \in Range(brokerOpts(agg))

\* the names on the first line of a serialized table
HeaderNames(text) ==
    LET line == SplitUnquoted(text, Newline)[1]
    IN IF line = Blank THEN <<>> ELSE SplitUnquoted(line, ",")

\* C29: the header line of every exported file lists the columns the table
\* displays, the keys of the first input record, in that order, whatever the
\* search and the sort state, also when the records differ in their keys and
\* when the search leaves no row.
C29_HeaderIsColumns ==
    [][download' # download /\ download'.name = "table.csv" =>
         HeaderNames(download'.content) = cols]_vars

\* b holds the rows of a, each as often
Permutation(a, b) ==
    /\ Len(a) = Len(b)
    /\ \E p \in [1..Len(a) -> 1..Len(a)] :
          /\ \A i, j \in 1..Len(a) : i # j => p[i] # p[j]
          /\ \A i \in 1..Len(a) : b[i] = a[p[i]]

\* C30: on the selected column the comparison is transitive over the values of
\* the rows found, after an ascending sort every earlier row shown compares
\* less than or equal to every later one, and the rows shown are always a
\* permutation of the rows found.
C30_ConsistentOrdering ==
    /\ Permutation(filtered, sorted)
    /\ sortable /\ sortKey # Null =>
          LET val(i) == Get(filtered[i], sortKey)
              shown(i) == Get(sorted[i], sortKey)
          IN /\ \A i, j, k \in 1..Len(filtered) :
                    /\ TableCompare(val(i), val(j), TRUE) <= 0
                    /\ TableCompare(val(j), val(k), TRUE) <= 0
                    => TableCompare(val(i), val(k), TRUE) <= 0
             /\ sortAsc =>
                    \A i, j \in 1..Len(sorted) :
                        i < j => TableCompare(shown(i), shown(j), TRUE) <= 0

====
